---- MODULE Spec2Model ----
(***************************************************************************)
(* d-vhs (src/app.py): a Flask film-collection tracker.  The state is the  *)
(* three database tables (Benutzer, Film, LendingRequest) and the session  *)
(* cookie of each browser; every route handler that writes is one action.  *)
(* In Spec and SpecUsers handlers run one at a time: each action is a      *)
(* whole request, from the decorators' checks to db.session.commit().  In  *)
(* SpecRace the threaded server runs verleihen requests side by side: the  *)
(* handler is cut at its database accesses into load, check and commit.    *)
(***************************************************************************)
EXTENDS Integers, Sequences, FiniteSets

\* ---------------------------------------------------------------- bounds
\* The largest primary key each table may reach, and the number of browsers.
MaxUserId == 3
MaxFilmId == 2
MaxRequestId == 2
NumClients == 1
\* The number of verleihen requests the threaded server handles side by side.
NumWorkers == 2

UserIds == 1..MaxUserId
FilmIds == 1..MaxFilmId
RequestIds == 1..MaxRequestId
Clients == 1..NumClients
Workers == 1..NumWorkers

\* ---------------------------------------------------------------- values
\* Python's None in a string column / a missing form field.
NULL == "<None>"
\* Python's None in the DateTime column.
NoDate == <<>>
\* The user names that forms and the bootstrap list carry.
Names == {"anna", "ben", "cleo"}
\* The names the forms of the two-user environment carry.
TwoNames == {"anna", "ben"}
\* INITIAL_USERS of the environment: the admins init_users creates, in order.
InitialUsers == <<"anna">>
\* A browser that carries no session keys.
NoSession == [benutzer_id |-> 0, benutzer_name |-> NULL, benutzer_admin |-> FALSE]

Digits == {"0", "1", "2", "3", "4", "5", "6", "7", "8", "9"}
Whitespace == {" "}

VARIABLES benutzer, film, lending, session
vars == <<benutzer, film, lending, session>>

\* The verleihen requests in flight: for each worker thread its position in the
\* handler, its form fields and local variables; and the order in which the
\* workers read the film row and committed.
VARIABLES inflight, log
handling == <<inflight, log>>
race_vars == <<benutzer, film, lending, session, inflight, log>>

\* A worker thread that has not received its request yet.
Idle == [pc |-> "idle", film_id |-> 0, verliehen_an |-> "", verliehen_datum |-> "",
         film_verliehen_an |-> NULL, verliehen_seit |-> NoDate]
\* A worker thread whose request was answered without a write.
Returned == [Idle EXCEPT !.pc = "done"]

\* ---------------------------------------------------------------- queries
\* Benutzer.query.filter_by(name=n).first(): the id of the user named n, 0 if none
\* (names are unique, so there is at most one).
UserByName(n) ==
    IF \E u \in DOMAIN benutzer : benutzer[u].name = n
    THEN CHOOSE u \in DOMAIN benutzer : benutzer[u].name = n
    ELSE 0

\* "benutzer_id" in session
LoggedIn(c) == session[c] # NoSession

\* login_erforderlich lets the request through
login_erforderlich(c) == LoggedIn(c)

\* admin_erforderlich as it would be if it trusted the admin flag kept in the
\* session at login.
admin_erforderlich_session_flag(c) ==
    /\ LoggedIn(c)
    /\ session[c].benutzer_admin

\* admin_erforderlich lets the request through
admin_erforderlich(c) ==
    /\ LoggedIn(c)
    /\ session[c].benutzer_id \in DOMAIN benutzer
    /\ benutzer[session[c].benutzer_id].is_admin

\* A table with one row removed / with one row added.
Without(f, k) == [x \in DOMAIN f \ {k} |-> f[x]]
With(f, k, row) == [x \in DOMAIN f \cup {k} |-> IF x = k THEN row ELSE f[x]]

\* The primary key of a new row.  The default database is SQLite, whose integer
\* primary key is the rowid: one more than the largest key in the table, so the
\* key of a deleted last row is handed out again.
NextId(ids) == IF ids = {} THEN 1 ELSE 1 + CHOOSE m \in ids : \A i \in ids : i <= m

\* ---------------------------------------------------------------- tmdb id
SubSeqFrom(s, i) == SubSeq(s, i, Len(s))

RECURSIVE LStrip(_)
LStrip(s) == IF s # <<>> /\ Head(s) \in Whitespace THEN LStrip(Tail(s)) ELSE s

RECURSIVE RStrip(_)
RStrip(s) ==
    IF s # <<>> /\ s[Len(s)] \in Whitespace THEN RStrip(SubSeq(s, 1, Len(s) - 1)) ELSE s

\* str.strip()
Strip(s) == RStrip(LStrip(s))

\* str.isdigit()
IsDigit(s) == s # <<>> /\ \A i \in 1..Len(s) : s[i] \in Digits

\* DigitRun as it would be if the pattern captured (.+) instead of (\d+).
RestOfInput(s) == s

\* The longest run of digits at the start of s: what (\d+) captures.
RECURSIVE DigitRun(_)
DigitRun(s) ==
    IF s # <<>> /\ Head(s) \in Digits THEN <<Head(s)>> \o DigitRun(Tail(s)) ELSE <<>>

MoviePath == <<"/", "m", "o", "v", "i", "e", "/">>

\* Positions where re.search(r'/movie/(\d+)') can match.
MovieMatches(s) ==
    {i \in 1..Len(s) :
        /\ i + Len(MoviePath) <= Len(s)
        /\ SubSeq(s, i, i + Len(MoviePath) - 1) = MoviePath
        /\ s[i + Len(MoviePath)] \in Digits}

\* extract_tmdb_id returned None (an id is never the empty string).
NoId == <<>>

\* extract_tmdb_id: the id as a string, NoId when the input has neither shape.
extract_tmdb_id(input_str) ==
    IF input_str = <<>> THEN NoId
    ELSE LET s == Strip(input_str)
             m == MovieMatches(s)
         IN  IF m # {}
             THEN LET i == CHOOSE j \in m : \A k \in m : j <= k
                  IN  DigitRun(SubSeqFrom(s, i + Len(MoviePath)))
             ELSE IF IsDigit(s) THEN s ELSE NoId

Url == <<"h", "t", "t", "p", "s", ":", "/", "/", "t", "m", "d", "b">> \o MoviePath

\* The strings typed into the "add film" form.
TmdbInputs ==
    { <<>>,
      <<"3", "4", "8">>,
      <<" ", "3", "4", "8", " ">>,
      Url \o <<"3", "4", "8", "-", "a", "l", "i", "e", "n">>,
      Url \o <<"3", "4", "8">>,
      <<"6", "0", "3">>,
      <<"a", "l", "i", "e", "n">> }

\* movie_id of fetch_film_data_tmdb for each form input: extract_tmdb_id of it,
\* tabulated.
movie_ids == [t \in TmdbInputs |-> extract_tmdb_id(t)]

\* The inputs that name film 348 or no film at all.
OneTitle == {t \in TmdbInputs : movie_ids[t] \in {NoId, <<"3", "4", "8">>}}

\* What the TMDb request can come back with.
TmdbOutcomes == {"ok", "not_found", "network_error"}

\* ---------------------------------------------------------------- dates
\* datetime.now()
Now == <<2026, 11, 5>>

\* The strings typed into the loan date field ("" = field left empty).
DateInputs == {"", "2024-01-15", "15.01.2024"}

\* datetime.strptime(s, "%Y-%m-%d"): the date, NoDate for ValueError.
strptime(s) == IF s = "2024-01-15" THEN <<2024, 1, 15>> ELSE NoDate

\* ---------------------------------------------------------------- Init
Init ==
    /\ benutzer = <<>>
    /\ film = <<>>
    /\ lending = <<>>
    /\ session = [c \in Clients |-> NoSession]
    /\ inflight = [w \in Workers |-> Idle]
    /\ log = <<>>

\* ---------------------------------------------------------------- users
\* flask init-users: with an empty user table, every name of INITIAL_USERS
\* becomes an admin.
init_users ==
    /\ DOMAIN benutzer = {}
    /\ benutzer' = [u \in DOMAIN InitialUsers |->
                      [name |-> InitialUsers[u], is_admin |-> TRUE]]
    /\ UNCHANGED <<film, lending, session>>

\* POST /login
login(c, name, password_ok) ==
    /\ LET u == UserByName(name)
       IN  IF u # 0 /\ password_ok
           THEN session' = [session EXCEPT ![c] =
                    [benutzer_id |-> u, benutzer_name |-> benutzer[u].name,
                     benutzer_admin |-> benutzer[u].is_admin]]
           ELSE UNCHANGED session
    /\ UNCHANGED <<benutzer, film, lending>>

\* GET /logout
logout(c) ==
    /\ session' = [session EXCEPT ![c] = NoSession]
    /\ UNCHANGED <<benutzer, film, lending>>

\* POST /benutzer/add
add_benutzer(c, name, password) ==
    /\ IF /\ login_erforderlich(c)
          /\ admin_erforderlich(c)
          /\ name # ""
          /\ password # ""
          /\ UserByName(name) = 0
       THEN /\ NextId(DOMAIN benutzer) \in UserIds
            /\ benutzer' = With(benutzer, NextId(DOMAIN benutzer),
                                [name |-> name, is_admin |-> FALSE])
       ELSE UNCHANGED benutzer
    /\ UNCHANGED <<film, lending, session>>

\* filme_count as it would be if it counted the films lent to the user.
filme_count_borrowed(name) == Cardinality({f \in DOMAIN film : film[f].verliehen_an = name})

\* Film.query.filter_by(besitzer=name).count()
filme_count(name) == Cardinality({f \in DOMAIN film : film[f].besitzer = name})

\* POST /benutzer/delete/<user_id>
delete_benutzer(c, user_id) ==
    /\ IF /\ admin_erforderlich(c)
          /\ user_id \in DOMAIN benutzer
          /\ filme_count(benutzer[user_id].name) = 0
       THEN /\ lending' = [r \in {x \in DOMAIN lending :
                                    /\ lending[x].borrower_id # user_id
                                    /\ lending[x].owner_id # user_id} |-> lending[r]]
            /\ benutzer' = Without(benutzer, user_id)
       ELSE UNCHANGED <<benutzer, lending>>
    /\ UNCHANGED <<film, session>>

\* ---------------------------------------------------------------- films
\* Film.query.filter_by(tmdb_id=...).first() in add_film: the films that already
\* carry this external id.
existing_film(tmdb_id) == {f \in DOMAIN film : film[f].tmdb_id = tmdb_id}

\* POST /add
add_film(c, tmdb_id, action, outcome) ==
    /\ LET movie_id == movie_ids[tmdb_id] IN
       IF /\ login_erforderlich(c)
          /\ tmdb_id # <<>>
          /\ movie_id # NoId
          /\ outcome = "ok"
          /\ existing_film(movie_id) = {}
       THEN /\ NextId(DOMAIN film) \in FilmIds
            /\ LET u == session[c].benutzer_id
                   row == [tmdb_id |-> movie_id,
                           besitzer |-> IF u \in DOMAIN benutzer
                                        THEN benutzer[u].name ELSE NULL,
                           wunschliste |-> (action = "wishlist"),
                           verliehen_an |-> NULL,
                           verliehen_seit |-> NoDate]
               IN  film' = With(film, NextId(DOMAIN film), row)
       ELSE UNCHANGED film
    /\ UNCHANGED <<benutzer, lending, session>>

\* POST /film/<film_id>/besitzer
update_besitzer(c, film_id, besitzer) ==
    /\ IF /\ login_erforderlich(c)
          /\ admin_erforderlich(c)
          /\ film_id \in DOMAIN film
          /\ (besitzer = "" \/ UserByName(besitzer) # 0)
       THEN film' = [film EXCEPT ![film_id].besitzer =
                        IF besitzer = "" THEN NULL ELSE besitzer]
       ELSE UNCHANGED film
    /\ UNCHANGED <<benutzer, lending, session>>

\* POST /film/<film_id>/wunschliste
toggle_wunschliste(c, film_id) ==
    /\ IF login_erforderlich(c) /\ film_id \in DOMAIN film
       THEN film' = [film EXCEPT ![film_id].wunschliste = ~film[film_id].wunschliste]
       ELSE UNCHANGED film
    /\ UNCHANGED <<benutzer, lending, session>>

\* ---------------------------------------------------------------- lending
\* requests_of as it would be if the filter compared owner_id with the borrower.
requests_of_owner(film_id, borrower_id) ==
    {r \in DOMAIN lending :
        lending[r].film_id = film_id /\ lending[r].owner_id = borrower_id}

\* requests_of as it would be if the filter left the borrower out.
requests_of_film(film_id, borrower_id) ==
    {r \in DOMAIN lending : lending[r].film_id = film_id}

\* LendingRequest.query.filter_by(film_id=..., borrower_id=...): the rows of one
\* borrower for one film.
requests_of(film_id, borrower_id) ==
    {r \in DOMAIN lending :
        lending[r].film_id = film_id /\ lending[r].borrower_id = borrower_id}

\* verleihen_erlaubt as it would be without the "already loaned" check.
verleihen_erlaubt_overwrite(film_id, verliehen_an, verliehen_datum) ==
    /\ verliehen_an # ""
    /\ UserByName(verliehen_an) # 0
    /\ (verliehen_datum # "" => strptime(verliehen_datum) # NoDate)

\* The checks of verleihen before it writes: a borrower was chosen and exists, the
\* film is not loaned, the date (if any) parses.
verleihen_erlaubt(film_id, verliehen_an, verliehen_datum) ==
    /\ verliehen_an # ""
    /\ UserByName(verliehen_an) # 0
    /\ film[film_id].verliehen_an = NULL
    /\ (verliehen_datum # "" => strptime(verliehen_datum) # NoDate)

\* POST /film/<film_id>/verleihen
verleihen(c, film_id, verliehen_an, verliehen_datum) ==
    /\ IF /\ login_erforderlich(c)
          /\ film_id \in DOMAIN film
          /\ verleihen_erlaubt(film_id, verliehen_an, verliehen_datum)
       THEN /\ film' = [film EXCEPT
                          ![film_id].verliehen_an = verliehen_an,
                          ![film_id].verliehen_seit =
                              IF verliehen_datum # "" THEN strptime(verliehen_datum)
                              ELSE Now]
            /\ lending' = [r \in DOMAIN lending \
                                   requests_of(film_id, UserByName(verliehen_an))
                             |-> lending[r]]
       ELSE UNCHANGED <<film, lending>>
    /\ UNCHANGED <<benutzer, session>>

\* verleihen, lines 425-427: the decorator's check and the SELECT that loads the
\* film row into the handler's session; 404 and the login redirect end the request.
verleihen_load(w, c, film_id, verliehen_an, verliehen_datum) ==
    /\ inflight[w].pc = "idle"
    /\ IF login_erforderlich(c) /\ film_id \in DOMAIN film
       THEN /\ inflight' = [inflight EXCEPT ![w] =
                   [pc |-> "loaded", film_id |-> film_id,
                    verliehen_an |-> verliehen_an,
                    verliehen_datum |-> verliehen_datum,
                    film_verliehen_an |-> film[film_id].verliehen_an,
                    verliehen_seit |-> NoDate]]
            /\ log' = Append(log, <<"read", w>>)
       ELSE /\ inflight' = [inflight EXCEPT ![w] = Returned]
            /\ UNCHANGED log
    /\ UNCHANGED vars

\* verleihen, lines 428-451: the checks before the write.  The borrower is looked
\* up now; "already loaned" is read from the film object loaded before.
verleihen_check(w) ==
    /\ inflight[w].pc = "loaded"
    /\ LET r == inflight[w] IN
       IF /\ r.verliehen_an # ""
          /\ UserByName(r.verliehen_an) # 0
          /\ r.film_verliehen_an = NULL
          /\ (r.verliehen_datum # "" => strptime(r.verliehen_datum) # NoDate)
       THEN inflight' = [inflight EXCEPT
                           ![w].pc = "checked",
                           ![w].verliehen_seit =
                               IF r.verliehen_datum # "" THEN strptime(r.verliehen_datum)
                               ELSE Now]
       ELSE inflight' = [inflight EXCEPT ![w] = Returned]
    /\ UNCHANGED <<vars, log>>

\* verleihen_commit as it would be if the UPDATE hit the row only while it is
\* still unloaned (a compare-and-set on verliehen_an).
verleihen_commit_if_unloaned(w) ==
    /\ inflight[w].pc = "checked"
    /\ LET r == inflight[w] IN
       IF r.film_id \in DOMAIN film /\ film[r.film_id].verliehen_an = NULL
       THEN /\ film' = [film EXCEPT ![r.film_id].verliehen_an = r.verliehen_an,
                                    ![r.film_id].verliehen_seit = r.verliehen_seit]
            /\ lending' = [q \in DOMAIN lending \
                                   requests_of(r.film_id, UserByName(r.verliehen_an))
                             |-> lending[q]]
            /\ log' = Append(log, <<"commit", w>>)
       ELSE UNCHANGED <<film, lending, log>>
    /\ inflight' = [inflight EXCEPT ![w].pc = "done"]
    /\ UNCHANGED <<benutzer, session>>

\* verleihen, lines 453-461: the flush before the borrower query sends
\* UPDATE film SET verliehen_an, verliehen_seit WHERE id = film_id, whatever the
\* row holds by now; then the borrower's requests for the film are deleted and
\* all is committed.  An UPDATE that matches no row raises and nothing is written.
verleihen_commit(w) ==
    /\ inflight[w].pc = "checked"
    /\ LET r == inflight[w] IN
       IF r.film_id \in DOMAIN film
       THEN /\ film' = [film EXCEPT ![r.film_id].verliehen_an = r.verliehen_an,
                                    ![r.film_id].verliehen_seit = r.verliehen_seit]
            /\ lending' = [q \in DOMAIN lending \
                                   requests_of(r.film_id, UserByName(r.verliehen_an))
                             |-> lending[q]]
            /\ log' = Append(log, <<"commit", w>>)
       ELSE UNCHANGED <<film, lending, log>>
    /\ inflight' = [inflight EXCEPT ![w].pc = "done"]
    /\ UNCHANGED <<benutzer, session>>

\* zurueckgeben as it would be if it cleared the borrower and forgot the date.
zurueckgeben_keeps_date(c, film_id) ==
    /\ IF /\ login_erforderlich(c)
          /\ film_id \in DOMAIN film
          /\ film[film_id].verliehen_an # NULL
       THEN film' = [film EXCEPT ![film_id].verliehen_an = NULL]
       ELSE UNCHANGED film
    /\ UNCHANGED <<benutzer, lending, session>>

\* POST /film/<film_id>/zurueckgeben
zurueckgeben(c, film_id) ==
    /\ IF /\ login_erforderlich(c)
          /\ film_id \in DOMAIN film
          /\ film[film_id].verliehen_an # NULL
       THEN film' = [film EXCEPT ![film_id].verliehen_an = NULL,
                                 ![film_id].verliehen_seit = NoDate]
       ELSE UNCHANGED film
    /\ UNCHANGED <<benutzer, lending, session>>

\* anfrage_erlaubt as it would be without the wishlist check.
anfrage_erlaubt_wishlist(film_id, benutzer_id) ==
    /\ film[film_id].besitzer # NULL
    /\ film[film_id].verliehen_an = NULL
    /\ film[film_id].besitzer # benutzer[benutzer_id].name
    /\ requests_of(film_id, benutzer_id) = {}
    /\ UserByName(film[film_id].besitzer) # 0

\* The checks of request_lending on the film and the requester, in the order of
\* the handler's early returns.
anfrage_erlaubt(film_id, benutzer_id) ==
    /\ film[film_id].besitzer # NULL
    /\ ~film[film_id].wunschliste
    /\ film[film_id].verliehen_an = NULL
    /\ film[film_id].besitzer # benutzer[benutzer_id].name
    /\ requests_of(film_id, benutzer_id) = {}
    /\ UserByName(film[film_id].besitzer) # 0

\* POST /film/<film_id>/request-lending
request_lending(c, film_id) ==
    /\ IF /\ LoggedIn(c)
          /\ UserByName(session[c].benutzer_name) # 0
          /\ film_id \in DOMAIN film
          /\ anfrage_erlaubt(film_id, UserByName(session[c].benutzer_name))
       THEN /\ NextId(DOMAIN lending) \in RequestIds
            /\ LET row == [film_id |-> film_id,
                           borrower_id |-> UserByName(session[c].benutzer_name),
                           owner_id |-> UserByName(film[film_id].besitzer)]
               IN  lending' = With(lending, NextId(DOMAIN lending), row)
       ELSE UNCHANGED lending
    /\ UNCHANGED <<benutzer, film, session>>

\* POST /lending-request/<request_id>/delete
delete_lending_request(c, request_id) ==
    /\ IF login_erforderlich(c) /\ request_id \in DOMAIN lending
       THEN lending' = Without(lending, request_id)
       ELSE UNCHANGED lending
    /\ UNCHANGED <<benutzer, film, session>>

\* darf_loeschen as it would be if any existing user passed.
darf_loeschen_anyone(c, film_id) ==
    /\ session[c].benutzer_id \in DOMAIN benutzer

\* The check of delete_film: the session's user is an admin or the film's owner.
\* A session whose user row is gone makes the handler raise before it writes.
darf_loeschen(c, film_id) ==
    /\ session[c].benutzer_id \in DOMAIN benutzer
    /\ \/ benutzer[session[c].benutzer_id].is_admin
       \/ benutzer[session[c].benutzer_id].name = film[film_id].besitzer

\* delete_film as it would be if it deleted the film and kept its requests.
delete_film_keeps_requests(c, film_id) ==
    /\ IF /\ login_erforderlich(c)
          /\ film_id \in DOMAIN film
          /\ darf_loeschen(c, film_id)
       THEN film' = Without(film, film_id)
       ELSE UNCHANGED film
    /\ UNCHANGED <<benutzer, lending, session>>

\* POST /delete/<film_id>
delete_film(c, film_id) ==
    /\ IF /\ login_erforderlich(c)
          /\ film_id \in DOMAIN film
          /\ darf_loeschen(c, film_id)
       THEN /\ lending' = [r \in {x \in DOMAIN lending : lending[x].film_id # film_id}
                             |-> lending[r]]
            /\ film' = Without(film, film_id)
       ELSE UNCHANGED <<film, lending>>
    /\ UNCHANGED <<benutzer, session>>

\* ---------------------------------------------------------------- leihboard
\* GET /leihboard reads four lists for the session's user; their members are
\* modelled, the order they are shown in is not.
requests_to_me(u) == {r \in DOMAIN lending : lending[r].owner_id = u}
requests_from_me(u) == {r \in DOMAIN lending : lending[r].borrower_id = u}
lent_films(u) ==
    {f \in DOMAIN film : film[f].besitzer = benutzer[u].name /\ film[f].verliehen_an # NULL}
borrowed_films(u) == {f \in DOMAIN film : film[f].verliehen_an = benutzer[u].name}

\* ---------------------------------------------------------------- Next
\* Every request a browser can send, with names from N and "add film" inputs
\* from T.
Handlers(N, T) ==
    \/ init_users /\ UNCHANGED handling
    \/ \E c \in Clients, n \in N, ok \in BOOLEAN : login(c, n, ok) /\ UNCHANGED handling
    \/ \E c \in Clients : logout(c) /\ UNCHANGED handling
    \/ \E c \in Clients, n \in N \cup {""}, p \in {"", "pw"} :
          add_benutzer(c, n, p) /\ UNCHANGED handling
    \/ \E c \in Clients, u \in UserIds : delete_benutzer(c, u) /\ UNCHANGED handling
    \/ \E c \in Clients, t \in T, a \in {"have", "wishlist"}, o \in TmdbOutcomes :
          add_film(c, t, a, o) /\ UNCHANGED handling
    \/ \E c \in Clients, f \in FilmIds, n \in N \cup {""} :
          update_besitzer(c, f, n) /\ UNCHANGED handling
    \/ \E c \in Clients, f \in FilmIds : toggle_wunschliste(c, f) /\ UNCHANGED handling
    \/ \E c \in Clients, f \in FilmIds, n \in N \cup {""}, d \in DateInputs :
          verleihen(c, f, n, d) /\ UNCHANGED handling
    \/ \E c \in Clients, f \in FilmIds : zurueckgeben(c, f) /\ UNCHANGED handling
    \/ \E c \in Clients, f \in FilmIds : request_lending(c, f) /\ UNCHANGED handling
    \/ \E c \in Clients, r \in RequestIds :
          delete_lending_request(c, r) /\ UNCHANGED handling
    \/ \E c \in Clients, f \in FilmIds : delete_film(c, f) /\ UNCHANGED handling

\* ---------------------------------------------------------------- specifications
\* Two users, two film titles.
Next == Handlers(TwoNames, TmdbInputs)
Spec == Init /\ [][Next]_vars

\* Three users, one film title.
NextUsers == Handlers(Names, OneTitle)
SpecUsers == Init /\ [][NextUsers]_vars

\* Two users, one film title, and verleihen requests handled side by side: the
\* threaded server switches between handlers at their database accesses.
NextRace ==
    \/ init_users /\ UNCHANGED handling
    \/ \E c \in Clients, n \in TwoNames, ok \in BOOLEAN :
          login(c, n, ok) /\ UNCHANGED handling
    \/ \E c \in Clients, n \in TwoNames, p \in {"", "pw"} :
          add_benutzer(c, n, p) /\ UNCHANGED handling
    \/ \E c \in Clients, u \in UserIds : delete_benutzer(c, u) /\ UNCHANGED handling
    \/ \E c \in Clients, t \in OneTitle, a \in {"have", "wishlist"}, o \in TmdbOutcomes :
          add_film(c, t, a, o) /\ UNCHANGED handling
    \/ \E c \in Clients, f \in FilmIds : zurueckgeben(c, f) /\ UNCHANGED handling
    \/ \E c \in Clients, f \in FilmIds : request_lending(c, f) /\ UNCHANGED handling
    \/ \E c \in Clients, f \in FilmIds : delete_film(c, f) /\ UNCHANGED handling
    \/ \E w \in Workers, c \in Clients, f \in FilmIds, n \in TwoNames \cup {""},
          d \in DateInputs : verleihen_load(w, c, f, n, d)
    \/ \E w \in Workers : verleihen_check(w)
    \/ \E w \in Workers : verleihen_commit(w)
SpecRace == Init /\ [][NextRace]_race_vars

\* ---------------------------------------------------------------- claims
\* The user a browser acts as in request_lending: the row with the session's name.
Requester(c) == UserByName(session[c].benutzer_name)

\* The films present before and after a step.
Kept == DOMAIN film \cap DOMAIN film'

\* C1: every film has a borrower and a loan date, or neither.
C1_BorrowerAndDateTogether ==
    \A f \in DOMAIN film :
        (film[f].verliehen_an = NULL) <=> (film[f].verliehen_seit = NoDate)

\* C1 witness: one film is on loan since today and another has been returned to
\* (or never left) the shelf.
C1_Witness ==
    \E f, g \in DOMAIN film :
        /\ film[f].verliehen_an \in Names /\ film[f].verliehen_seit = Now
        /\ film[g].verliehen_an = NULL /\ film[g].verliehen_seit = NoDate

\* C2: no two LendingRequest rows share film and borrower.
C2_OneRequestPerPair ==
    \A r1, r2 \in DOMAIN lending :
        (/\ lending[r1].film_id = lending[r2].film_id
         /\ lending[r1].borrower_id = lending[r2].borrower_id) => r1 = r2

\* C2 witness: the logged-in user already has a request for a film that still
\* meets every other condition of request_lending, and a second row would fit
\* the table: asking again is possible and must add nothing.
C2_Witness ==
    \E c \in Clients, r \in DOMAIN lending :
        /\ LoggedIn(c)
        /\ lending[r].borrower_id = Requester(c)
        /\ lending[r].film_id \in DOMAIN film
        /\ film[lending[r].film_id].verliehen_an = NULL
        /\ ~film[lending[r].film_id].wunschliste
        /\ film[lending[r].film_id].besitzer \in Names
        /\ film[lending[r].film_id].besitzer # session[c].benutzer_name
        /\ NextId(DOMAIN lending) \in RequestIds

\* C3: a verleihen that loans film F to user B removes the rows with film F and
\* borrower B and leaves every other row as it was.
C3_VerleihenRemovesExactlyThatRequest ==
    [][\A c \in Clients, f \in FilmIds, b \in Names, d \in DateInputs :
          (/\ f \in Kept
           /\ film[f].verliehen_an = NULL
           /\ film'[f].verliehen_an = b
           /\ verleihen(c, f, b, d))
          => /\ DOMAIN lending' =
                  {r \in DOMAIN lending :
                      ~(/\ lending[r].film_id = f
                        /\ lending[r].borrower_id \in DOMAIN benutzer
                        /\ benutzer[lending[r].borrower_id].name = b)}
             /\ \A r \in DOMAIN lending' : lending'[r] = lending[r]]_vars

\* C3 witness: film F is on loan to B while a request of another borrower for F
\* and a request of B for another film are still in the table.
C3_Witness ==
    \E f \in DOMAIN film, r1, r2 \in DOMAIN lending :
        /\ film[f].verliehen_an \in Names
        /\ lending[r1].film_id = f
        /\ lending[r1].borrower_id # UserByName(film[f].verliehen_an)
        /\ lending[r2].film_id # f
        /\ lending[r2].borrower_id = UserByName(film[f].verliehen_an)

\* The conditions C4 names: the requester exists, the film has an owner who is a
\* user, is neither wished for nor on loan, is not the requester's, and the
\* requester has not asked for it yet.
C4_Pre(c, f) ==
    /\ LoggedIn(c)
    /\ \E b \in DOMAIN benutzer : benutzer[b].name = session[c].benutzer_name
    /\ f \in DOMAIN film
    /\ \E o \in DOMAIN benutzer : benutzer[o].name = film[f].besitzer
    /\ film[f].wunschliste = FALSE
    /\ film[f].verliehen_an = NULL
    /\ film[f].besitzer # session[c].benutzer_name
    /\ ~\E r \in DOMAIN lending :
          /\ lending[r].film_id = f
          /\ benutzer[lending[r].borrower_id].name = session[c].benutzer_name

\* C4: request_lending adds a row only under the conditions above, and the row
\* it adds is the requester's for that film; otherwise it changes nothing.
C4_RequestOnlyWhenAllowed ==
    [][\A c \in Clients, f \in FilmIds :
          request_lending(c, f)
          => IF C4_Pre(c, f)
             THEN /\ \E r \in DOMAIN lending' \ DOMAIN lending :
                        /\ DOMAIN lending' = DOMAIN lending \cup {r}
                        /\ lending'[r].film_id = f
                        /\ lending'[r].borrower_id = Requester(c)
                  /\ \A r \in DOMAIN lending : lending'[r] = lending[r]
                  /\ UNCHANGED <<benutzer, film>>
             ELSE UNCHANGED <<benutzer, film, lending>>]_vars

\* C4 witness: a request was filed for a film that has since been put on the
\* wishlist, where a further request is refused.
C4_Witness ==
    \E r \in DOMAIN lending :
        /\ lending[r].film_id \in DOMAIN film
        /\ film[lending[r].film_id].wunschliste
        /\ NextId(DOMAIN lending) \in RequestIds

\* C5: the borrower and loan date of a film change only from none to an existing
\* user and a date, by verleihen, or from a borrower to none, by zurueckgeben.
C5_LoanOnlyFromShelfReturnOnlyFromLoan ==
    [][\A f \in Kept :
          (\/ film'[f].verliehen_an # film[f].verliehen_an
           \/ film'[f].verliehen_seit # film[f].verliehen_seit)
          => \/ /\ film[f].verliehen_an = NULL
                /\ \E u \in DOMAIN benutzer : benutzer[u].name = film'[f].verliehen_an
                /\ \E c \in Clients, d \in DateInputs :
                      verleihen(c, f, film'[f].verliehen_an, d)
             \/ /\ film[f].verliehen_an # NULL
                /\ film'[f].verliehen_an = NULL
                /\ \E c \in Clients : zurueckgeben(c, f)]_vars

\* C5 witness: a film is on loan since a typed date to a user who exists, and
\* another user could be named as borrower.
C5_Witness ==
    \E f \in DOMAIN film, u, v \in DOMAIN benutzer :
        /\ u # v
        /\ film[f].verliehen_an = benutzer[u].name
        /\ film[f].verliehen_seit = strptime("2024-01-15")

\* The user row a browser's session id refers to is an admin.
IsAdminSession(c) ==
    /\ session[c] # NoSession
    /\ \E u \in DOMAIN benutzer : u = session[c].benutzer_id /\ benutzer[u].is_admin

\* C6: delete_benutzer by an admin on user U changes nothing while a film is
\* owned by U's name; otherwise it removes U and exactly the requests in which
\* U is borrower or owner.
C6_DeleteUserRejectedOrCascades ==
    [][\A c \in Clients, u \in UserIds :
          (delete_benutzer(c, u) /\ IsAdminSession(c) /\ u \in DOMAIN benutzer)
          => IF \E f \in DOMAIN film : film[f].besitzer = benutzer[u].name
             THEN UNCHANGED <<benutzer, film, lending>>
             ELSE /\ DOMAIN benutzer' = DOMAIN benutzer \ {u}
                  /\ \A v \in DOMAIN benutzer' : benutzer'[v] = benutzer[v]
                  /\ DOMAIN lending' =
                        {r \in DOMAIN lending :
                            lending[r].borrower_id # u /\ lending[r].owner_id # u}
                  /\ \A r \in DOMAIN lending' : lending'[r] = lending[r]
                  /\ UNCHANGED film]_vars

\* C6 witness: a user with a smaller id than an existing user is gone (so it was
\* deleted), a request between two other users is still there, and a film has
\* an owner (who cannot be deleted).
C6_Witness ==
    \E u \in UserIds \ DOMAIN benutzer, v \in DOMAIN benutzer, r \in DOMAIN lending :
        /\ u < v
        /\ lending[r].borrower_id \in DOMAIN benutzer
        /\ lending[r].owner_id \in DOMAIN benutzer
        /\ \E f \in DOMAIN film : film[f].besitzer = benutzer[lending[r].owner_id].name

\* The user the session id refers to is an admin or bears the film owner's name.
C7_MayDelete(c, f) ==
    \E u \in DOMAIN benutzer :
        /\ u = session[c].benutzer_id
        /\ (benutzer[u].is_admin \/ benutzer[u].name = film[f].besitzer)

\* C7: a film disappears only by a delete_film of an admin or of its owner, and
\* takes exactly its own requests with it; a delete_film of anyone else changes
\* neither films nor requests.
C7_DeleteFilmOnlyByOwnerOrAdmin ==
    [][/\ \A f \in DOMAIN film \ DOMAIN film' :
             \E c \in Clients :
                 /\ delete_film(c, f)
                 /\ LoggedIn(c)
                 /\ C7_MayDelete(c, f)
                 /\ DOMAIN lending' = {r \in DOMAIN lending : lending[r].film_id # f}
                 /\ \A r \in DOMAIN lending' : lending'[r] = lending[r]
                 /\ \A g \in DOMAIN film' : film'[g] = film[g]
       /\ \A c \in Clients, f \in DOMAIN film :
             (~(LoggedIn(c) /\ C7_MayDelete(c, f)) /\ delete_film(c, f))
             => UNCHANGED <<film, lending>>]_vars

\* C7 witness: film 1 is gone while film 2, added after it, and a request for
\* film 2 are still there; the logged-in user is neither admin nor its owner.
C7_Witness ==
    \E c \in Clients, f, g \in FilmIds, r \in DOMAIN lending :
        /\ f < g /\ f \notin DOMAIN film /\ g \in DOMAIN film
        /\ lending[r].film_id = g
        /\ LoggedIn(c) /\ ~C7_MayDelete(c, g)

\* The external id an "add film" input names: its digits (the inputs carry no
\* digit outside the id).
C8_ExternalId == [t \in TmdbInputs |-> SelectSeq(t, LAMBDA ch : ch \in Digits)]

\* C8: no two films carry the same external id, and add_film with an input that
\* names an id already in the catalog leaves the film table as it is.
C8_NoDuplicateTitle ==
    [][/\ \A f, g \in DOMAIN film' : film'[f].tmdb_id = film'[g].tmdb_id => f = g
       /\ film' # film =>
             \A t \in TmdbInputs :
                 (\E f \in DOMAIN film : film[f].tmdb_id = C8_ExternalId[t])
                 => \A c \in Clients, a \in {"have", "wishlist"}, o \in TmdbOutcomes :
                       ~add_film(c, t, a, o)]_vars

\* C8 witness: film 348 is the only film of the catalog, owned and lent out,
\* and a logged-in user could add another film.
C8_Witness ==
    \E c \in Clients, f \in DOMAIN film :
        /\ LoggedIn(c)
        /\ DOMAIN film = {f}
        /\ film[f].tmdb_id = <<"3", "4", "8">>
        /\ film[f].besitzer \in Names
        /\ film[f].verliehen_an \in Names
        /\ NextId(DOMAIN film) \in FilmIds

\* The film's owner, as a user row (0 if the owner column names no user).
Owner(f) == UserByName(film[f].besitzer)

\* The start of the flow of C9: B is logged in, film f is owned by a user A other
\* than B, is not on loan and not on the wishlist.
C9_Pre(c, f) ==
    /\ LoggedIn(c)
    /\ Requester(c) # 0
    /\ f \in DOMAIN film
    /\ Owner(f) # 0
    /\ Owner(f) # Requester(c)
    /\ film[f].verliehen_an = NULL
    /\ ~film[f].wunschliste

\* B's request for film f is on the owner's leihboard.
C9_OnOwnersBoard(c, f) ==
    \E r \in requests_to_me(Owner(f)) :
        lending[r].film_id = f /\ lending[r].borrower_id = Requester(c)

\* C9, first half: after B calls request_lending for such a film, B's request is
\* in the owner's requests_to_me.  Where the call changes nothing (it is not
\* ENABLED as a step that changes the state, and the table has room), the state
\* after the call is the state before it.
C9_RequestReachesOwner ==
    \A c \in Clients, f \in FilmIds :
        (/\ C9_Pre(c, f)
         /\ NextId(DOMAIN lending) \in RequestIds
         /\ ~ENABLED <<request_lending(c, f)>>_vars)
        => C9_OnOwnersBoard(c, f)

\* C9, the rest of the flow: a request_lending that adds a row puts it on the
\* owner's board, and a verleihen to B that writes leaves the film with borrower
\* B, without a request of B, in the owner's lent_films and in B's
\* borrowed_films.
C9_FlowOfNewRequest ==
    [][/\ \A c \in Clients, f \in FilmIds :
             (request_lending(c, f) /\ C9_Pre(c, f)) => C9_OnOwnersBoard(c, f)'
       /\ \A c \in Clients, f \in FilmIds, b \in Names, d \in DateInputs :
             (/\ verleihen(c, f, b, d)
              /\ f \in DOMAIN film
              /\ film[f].verliehen_an = NULL
              /\ Owner(f) # 0
              /\ UserByName(b) # 0)
             => /\ film'[f].verliehen_an = b
                /\ requests_of(f, UserByName(b))' = {}
                /\ f \in lent_films(Owner(f))'
                /\ f \in borrowed_films(UserByName(b))']_vars

\* C10: add_benutzer, delete_benutzer and update_besitzer change users, films and
\* requests only for a session whose user row exists and is an admin.
C10_AdminOnly ==
    [][\A c \in Clients :
          (/\ ~IsAdminSession(c)
           /\ \/ \E n \in Names \cup {""}, p \in {"", "pw"} : add_benutzer(c, n, p)
              \/ \E u \in UserIds : delete_benutzer(c, u)
              \/ \E f \in FilmIds, n \in Names \cup {""} : update_besitzer(c, f, n))
          => UNCHANGED <<benutzer, film, lending>>]_vars

\* C10 witness: the browser still carries the session of an admin whose row has
\* been deleted, while another user and a film exist.
C10_Witness ==
    \E c \in Clients :
        /\ LoggedIn(c)
        /\ session[c].benutzer_admin
        /\ session[c].benutzer_id \notin DOMAIN benutzer
        /\ DOMAIN benutzer # {}
        /\ DOMAIN film # {}

\* C11: every LendingRequest row refers to a film that exists and to a borrower
\* and an owner that exist as users.
C11_RequestsReferToLiveRows ==
    \A r \in DOMAIN lending :
        /\ lending[r].film_id \in DOMAIN film
        /\ lending[r].borrower_id \in DOMAIN benutzer
        /\ lending[r].owner_id \in DOMAIN benutzer

\* C11 witness: a user was deleted (the browser still carries the session of a
\* user that is gone) and a request between two remaining users is left.
C11_Witness ==
    \E c \in Clients :
        /\ LoggedIn(c)
        /\ session[c].benutzer_id \notin DOMAIN benutzer
        /\ lending # <<>>

\* C13: the borrower of every film is none or the name of an existing user.
C13_BorrowerExists ==
    \A f \in DOMAIN film :
        film[f].verliehen_an = NULL \/ UserByName(film[f].verliehen_an) # 0

\* C14: the recorded owner of every request is the user named in the film's owner
\* column, and its borrower is not that user.
C14_RequestOwnerIsFilmOwner ==
    \A r \in DOMAIN lending :
        /\ lending[r].owner_id = Owner(lending[r].film_id)
        /\ lending[r].borrower_id # Owner(lending[r].film_id)

\* The position of event e in the log, 0 if it did not happen.
Pos(e) ==
    IF \E i \in DOMAIN log : log[i] = e
    THEN CHOOSE i \in DOMAIN log : log[i] = e
    ELSE 0

\* Worker g has committed its loan of film f, worker h (another borrower, the
\* same film) had loaded the film row before that commit and is still in flight;
\* no return happened: the row shows g's borrower.
C12_Overtaken(g, h) ==
    /\ g # h
    /\ inflight[g].pc = "done"
    /\ inflight[h].pc \in {"loaded", "checked"}
    /\ inflight[g].film_id = inflight[h].film_id
    /\ inflight[g].verliehen_an # inflight[h].verliehen_an
    /\ Pos(<<"commit", g>>) > 0
    /\ Pos(<<"read", h>>) < Pos(<<"commit", g>>)
    /\ inflight[h].film_id \in DOMAIN film
    /\ film[inflight[h].film_id].verliehen_an = inflight[g].verliehen_an

\* C12: two verleihen handlers for the same film and different existing borrowers
\* that both loaded the unloaned film before either committed both pass the
\* "already loaned" check and both commit: the check of the handler that is
\* behind passes although the other's loan is recorded by then, and its commit
\* overwrites that loan's borrower and date with its own, without a return.
C12_LastWriteWins ==
    [][\A g, h \in Workers :
          C12_Overtaken(g, h) =>
             /\ ( /\ inflight[h].pc = "loaded"
                  /\ inflight[h].film_verliehen_an = NULL
                  /\ UserByName(inflight[h].verliehen_an) # 0
                  /\ (inflight[h].verliehen_datum # ""
                        => strptime(inflight[h].verliehen_datum) # NoDate)
                  /\ verleihen_check(h)
                  => inflight'[h].pc = "checked" )
             /\ ( /\ inflight[h].pc = "checked"
                  /\ verleihen_commit(h)
                  => /\ film'[inflight[h].film_id].verliehen_an = inflight[h].verliehen_an
                     /\ film'[inflight[h].film_id].verliehen_seit
                           = inflight[h].verliehen_seit
                     /\ Pos(<<"commit", h>>)' = Len(log) + 1
                     /\ inflight'[h].pc = "done" )]_race_vars

\* C12 witness: both handlers read, then both committed; the film shows the
\* borrower and the date of the later commit, which differ from the earlier one's.
C12_Witness ==
    /\ Len(log) = 4
    /\ log[1][1] = "read" /\ log[2][1] = "read"
    /\ log[3][1] = "commit" /\ log[4][1] = "commit"
    /\ LET g == log[3][2]
           h == log[4][2]
           f == inflight[h].film_id
       IN /\ g # h
          /\ inflight[g].film_id = f
          /\ f \in DOMAIN film
          /\ inflight[g].verliehen_an # inflight[h].verliehen_an
          /\ inflight[g].verliehen_seit # inflight[h].verliehen_seit
          /\ film[f].verliehen_an = inflight[h].verliehen_an
          /\ film[f].verliehen_seit = inflight[h].verliehen_seit
====
